---- MODULE Spec2Model ----
(***************************************************************************)
(* A model of mcp_server.py: the TTL cache, the shared HTTP session, the   *)
(* fetching helpers, the cached retrieval functions and the query tools.   *)
(*                                                                         *)
(* Python values are modelled as follows.                                  *)
(*   str        a sequence of one-character strings, "" being << >>        *)
(*   Optional   None is the empty set, a present value v is {v}            *)
(*   list       a sequence                                                 *)
(*   coroutine  an operator from the world (cache, session) and the        *)
(*              backend's answers to [w, exc, ret]: the world after the    *)
(*              call, the exception raised ("" if none), the value         *)
(*              returned                                                   *)
(***************************************************************************)
EXTENDS Integers, Sequences, FiniteSets, TLC

VARIABLES now, cache, stored, session, closes, lifespan, local_docs_root, last,
          tasks

vars == <<now, cache, stored, session, closes, lifespan, local_docs_root, last,
          tasks>>

\* ------------------------------------------------------------------------
\* Bounds of the model
\* ------------------------------------------------------------------------

\* Seconds the clock moves in one step of the retrieval layer.
Tick == 600
\* The clock stops moving at MaxTime seconds.
MaxTime == 1800
\* The clock of the bare cache moves one second a step, up to MaxCacheTime.
MaxCacheTime == 4
\* The largest ttl, in seconds, given to a bare cache_set.
MaxTtl == 2

\* ------------------------------------------------------------------------
\* Optional values
\* ------------------------------------------------------------------------

None == {}
Some(v) == {v}
IsNone(o) == o = {}
The(o) == CHOOSE v \in o : TRUE

\* ------------------------------------------------------------------------
\* Strings
\* ------------------------------------------------------------------------

\* The characters the model's strings are made of, in code point order.
Alphabet ==
    << " ", "-", ".", "/", "0", "1", "2", "9", ":", "?", "A", "B", "C", "D",
       "E", "F", "L", "M", "_", "a", "b", "c", "d", "e", "f", "h", "i", "j",
       "k", "l", "m", "n", "o", "p", "r", "s", "t", "u", "v", "w", "x", "y" >>

\* The upper-case letters of the alphabet and their lower-case forms.
UpperCase == << "A", "B", "C", "D", "E", "F", "L", "M" >>
LowerCase == << "a", "b", "c", "d", "e", "f", "l", "m" >>

\* The place of each character in the alphabet
Places ==
    [ch \in {Alphabet[i] : i \in 1..Len(Alphabet)} |->
        CHOOSE i \in 1..Len(Alphabet) : Alphabet[i] = ch]

Ord(ch) == Places[ch]

\* str.startswith
StartsWith(s, p) == Len(s) >= Len(p) /\ SubSeq(s, 1, Len(p)) = p

\* str.endswith
EndsWith(s, p) ==
    Len(s) >= Len(p) /\ SubSeq(s, Len(s) - Len(p) + 1, Len(s)) = p

\* a < b on str: the first differing code point decides, a proper prefix is less
RECURSIVE StrLess(_, _)
StrLess(a, b) ==
    IF b = << >> THEN FALSE
    ELSE IF a = << >> THEN TRUE
    ELSE IF Head(a) = Head(b) THEN StrLess(Tail(a), Tail(b))
    ELSE Ord(Head(a)) < Ord(Head(b))

\* s.rstrip("/")
RECURSIVE RStripSlash(_)
RStripSlash(s) ==
    IF s # << >> /\ s[Len(s)] = "/" THEN RStripSlash(SubSeq(s, 1, Len(s) - 1))
    ELSE s

\* str.lower
Lower(s) ==
    [i \in 1..Len(s) |->
        IF \E j \in 1..Len(UpperCase) : UpperCase[j] = s[i]
        THEN LowerCase[CHOOSE j \in 1..Len(UpperCase) : UpperCase[j] = s[i]]
        ELSE s[i]]

\* "sub in s"
Contains(s, sub) ==
    \E i \in 0..(Len(s) - Len(sub)) : SubSeq(s, i + 1, i + Len(sub)) = sub

\* s[n:]
Drop(s, n) == IF n >= Len(s) THEN << >> ELSE SubSeq(s, n + 1, Len(s))

\* s.lstrip(chars) and s.strip() (of blanks)
RECURSIVE LStrip(_, _)
LStrip(s, ch) == IF s # << >> /\ Head(s) = ch THEN LStrip(Tail(s), ch) ELSE s

RECURSIVE RStrip(_, _)
RStrip(s, ch) ==
    IF s # << >> /\ s[Len(s)] = ch THEN RStrip(SubSeq(s, 1, Len(s) - 1), ch) ELSE s

Strip(s) == RStrip(LStrip(s, " "), " ")

\* s.split(sep), sep one character: the pieces between the separators
RECURSIVE Split(_, _)
Split(s, sep) ==
    IF \A i \in 1..Len(s) : s[i] # sep THEN << s >>
    ELSE LET i == CHOOSE i \in 1..Len(s) :
                      s[i] = sep /\ \A j \in 1..(i - 1) : s[j] # sep
         IN  << SubSeq(s, 1, i - 1) >> \o Split(Drop(s, i), sep)

\* sep.join(parts)
RECURSIVE Join(_, _)
Join(parts, sep) ==
    IF parts = << >> THEN << >>
    ELSE IF Len(parts) = 1 THEN parts[1]
    ELSE parts[1] \o sep \o Join(Tail(parts), sep)

\* sorted(set of str): ascending by code points
RECURSIVE Sorted(_)
Sorted(S) ==
    IF S = {} THEN << >>
    ELSE LET least == CHOOSE x \in S : \A y \in S : x = y \/ StrLess(x, y)
         IN  << least >> \o Sorted(S \ {least})

\* xs[:n]
Take(xs, n) == IF n >= Len(xs) THEN xs ELSE SubSeq(xs, 1, n)

Slash == << "/" >>

\* SAGE_BASE = "https://sage.ci.dev/current/p"
SAGE_BASE ==
    << "h", "t", "t", "p", "s", ":", "/", "/", "s", "a", "g", "e", ".", "c",
       "i", ".", "d", "e", "v", "/", "c", "u", "r", "r", "e", "n", "t", "/",
       "p" >>

\* ------------------------------------------------------------------------
\* The world a coroutine runs in, and what a call gives back
\* ------------------------------------------------------------------------

\* now: time.time(), in seconds; lifespan: "running" until the lifespan
\* context exits; local_docs_root: _local_docs_root.
\* cache: _cache, key -> <<value, expiry_time>>; stored: for each key the
\* value, time and ttl of the latest cache_set (history, read by no code);
\* session: _session, 0 for None, else the number of a ClientSession;
\* closes[i]: how often ClientSession i was closed; reqs: the URLs requested
\* during the call.
World == [cache |-> cache, stored |-> stored, session |-> session,
          closes |-> closes, reqs |-> << >>]

Ret(w, v) == [w |-> w, exc |-> "", ret |-> v]
Raise(w, e) == [w |-> w, exc |-> e, ret |-> None]

\* ------------------------------------------------------------------------
\* Shared HTTP session
\* ------------------------------------------------------------------------

\* _session.closed
SessionClosed(w) == w.closes[w.session] > 0

\* get_session: a new ClientSession if there is none or it is closed
get_session(w) ==
    IF w.session = 0 \/ SessionClosed(w)
    THEN [w EXCEPT !.closes = Append(@, 0), !.session = Len(w.closes) + 1]
    ELSE w

\* ------------------------------------------------------------------------
\* Simple TTL cache
\* ------------------------------------------------------------------------

\* cache_get with the expiry compared by >=: an entry lives one instant longer
cache_get_inclusive(c, key, t) ==
    IF key \in DOMAIN c /\ c[key][2] >= t THEN Some(c[key][1]) ELSE None

\* cache_get at time t: the value of an entry that has not expired
cache_get(c, key, t) ==
    IF key \in DOMAIN c /\ c[key][2] > t THEN Some(c[key][1]) ELSE None

\* _cache[key] = (value, time.time() + ttl)
CacheStore(c, key, value, ttl, t) ==
    [k \in DOMAIN c \cup {key} |-> IF k = key THEN <<value, t + ttl>> ELSE c[k]]

\* cache_set that keeps an entry the key already has: the first write wins
cache_set_first(w, key, value, ttl, t) ==
    IF key \in DOMAIN w.cache THEN w
    ELSE [w EXCEPT
            !.cache = CacheStore(w.cache, key, value, ttl, t),
            !.stored = [k \in DOMAIN w.stored \cup {key} |->
                          IF k = key THEN [value |-> value, at |-> t, ttl |-> ttl]
                          ELSE w.stored[k]]]

\* cache_set at time t, on the world
cache_set(w, key, value, ttl, t) ==
    [w EXCEPT
       !.cache = CacheStore(w.cache, key, value, ttl, t),
       !.stored = [k \in DOMAIN w.stored \cup {key} |->
                     IF k = key THEN [value |-> value, at |-> t, ttl |-> ttl]
                     ELSE w.stored[k]]]

\* ------------------------------------------------------------------------
\* Fetching helpers
\* ------------------------------------------------------------------------

\* What the backend does with one GET: the transport fails (kind "error",
\* session.get raises aiohttp.ClientError) or a response arrives with a status
\* and a body; valid tells whether a JSON body parses, data is the page (text)
\* or the parsed value (JSON, None for null).
Response(kind, status, valid, data) ==
    [kind |-> kind, status |-> status, valid |-> valid, data |-> data]

TransportError == Response("error", 0, FALSE, None)

\* fetch_text: None unless the status is 200; a transport failure propagates
fetch_text(w, url, resp) ==
    LET w1 == get_session(w)
        w2 == [w1 EXCEPT !.reqs = Append(@, url)]
    IN  IF resp.kind = "error" THEN Raise(w2, "ClientError")
        ELSE IF resp.status # 200 THEN Ret(w2, None)
        ELSE Ret(w2, resp.data)

\* fetch_json: as fetch_text, and resp.json raises on a body that is not JSON
fetch_json(w, url, resp) ==
    LET w1 == get_session(w)
        w2 == [w1 EXCEPT !.reqs = Append(@, url)]
    IN  IF resp.kind = "error" THEN Raise(w2, "ClientError")
        ELSE IF resp.status # 200 THEN Ret(w2, None)
        ELSE IF ~resp.valid THEN Raise(w2, "JSONDecodeError")
        ELSE Ret(w2, resp.data)

\* ------------------------------------------------------------------------
\* Directory listing parser
\* ------------------------------------------------------------------------

\* A page is the sequence of its anchors' href attributes, in document
\* order (an anchor without href reads as "").
RECURSIVE parse_directory_listing(_)
parse_directory_listing(html) ==
    IF html = << >> THEN << >>
    ELSE LET href == Head(html)
             rest == parse_directory_listing(Tail(html))
         IN  IF StartsWith(href, << "?" >>) \/ StartsWith(href, Slash)
                \/ href = << ".", ".", "/" >>
             THEN rest
             ELSE IF EndsWith(href, Slash) THEN << RStripSlash(href) >> \o rest
             ELSE rest

\* ------------------------------------------------------------------------
\* Version ordering (version_utils.find_latest_version)
\* ------------------------------------------------------------------------

\* The greatest string of a non-empty list, by code points.
RECURSIVE MaxStr(_)
MaxStr(xs) ==
    IF Len(xs) = 1 THEN xs[1]
    ELSE LET m == MaxStr(Tail(xs))
         IN  IF StrLess(m, Head(xs)) THEN Head(xs) ELSE m

\* find_latest_version(versions) -> (latest, _): some element of a non-empty
\* list, the maximal one of the ordering policy
find_latest_version(versions) == << MaxStr(versions), None >>

\* ------------------------------------------------------------------------
\* Cache keys, URLs and lifetimes
\* ------------------------------------------------------------------------

KeyAllPackages == << "a", "l", "l", "_", "p", "a", "c", "k", "a", "g", "e", "s" >>
KeyVersions(package) == << "v", "e", "r", "s", "i", "o", "n", "s", ":" >> \o package
KeyStatus(package, version) == << "s", "t", "a", "t", "u", "s", ":" >> \o package \o Slash \o version
KeyDoc(package, version, path) ==
    << "d", "o", "c", ":" >> \o package \o Slash \o version \o Slash \o path

UrlAllPackages == SAGE_BASE \o Slash
UrlVersions(package) == SAGE_BASE \o Slash \o package \o Slash
UrlStatus(package, version) ==
    SAGE_BASE \o Slash \o package \o Slash \o version \o << "/", "s", "t", "a", "t", "u", "s", ".", "j", "s", "o", "n" >>
UrlDoc(package, version, path) ==
    SAGE_BASE \o Slash \o package \o Slash \o version \o Slash \o path

TTL_PACKAGES == 3600
TTL_VERSIONS == 1800
TTL_STATUS == 1800
TTL_DOC == 600

\* ------------------------------------------------------------------------
\* Package list, version resolution, status.json, doc JSON
\* ------------------------------------------------------------------------

\* get_all_packages caching the empty list it returns on a failed fetch
get_all_packages_negative(w, t, resp) ==
    LET cached == cache_get(w.cache, KeyAllPackages, t)
        f == fetch_text(w, UrlAllPackages, resp)
        packages == parse_directory_listing(The(f.ret))
    IN  IF ~IsNone(cached) THEN Ret(w, The(cached))
        ELSE IF f.exc # "" THEN f
        ELSE IF IsNone(f.ret)
             THEN Ret(cache_set(f.w, KeyAllPackages, << >>, TTL_PACKAGES, t), << >>)
        ELSE Ret(cache_set(f.w, KeyAllPackages, packages, TTL_PACKAGES, t),
                 packages)

\* get_all_packages: the cached list or the parsed listing page; [] on a
\* failed fetch, which is not cached
get_all_packages(w, t, resp) ==
    LET cached == cache_get(w.cache, KeyAllPackages, t)
        f == fetch_text(w, UrlAllPackages, resp)
        packages == parse_directory_listing(The(f.ret))
    IN  IF ~IsNone(cached) THEN Ret(w, The(cached))
        ELSE IF f.exc # "" THEN f
        ELSE IF IsNone(f.ret) THEN Ret(f.w, << >>)
        ELSE Ret(cache_set(f.w, KeyAllPackages, packages, TTL_PACKAGES, t),
                 packages)

\* "if version:" is false for None and for ""
Truthy(version) == ~IsNone(version) /\ The(version) # << >>

\* The version list resolve_version works on: the cached one or the parsed
\* listing page, which it caches. ret is None when the page fetch failed.
VersionList(w, t, package, resp) ==
    LET cache_key == KeyVersions(package)
        cached == cache_get(w.cache, cache_key, t)
        f == fetch_text(w, UrlVersions(package), resp)
        versions == parse_directory_listing(The(f.ret))
    IN  IF ~IsNone(cached) THEN Ret(w, cached)
        ELSE IF f.exc # "" THEN f
        ELSE IF IsNone(f.ret) THEN Ret(f.w, None)
        ELSE Ret(cache_set(f.w, cache_key, versions, TTL_VERSIONS, t),
                 Some(versions))

\* resolve_version checking an explicit version against the version list
resolve_version_validating(w, t, package, version, resp) ==
    LET l == VersionList(w, t, package, resp)
    IN  IF l.exc # "" THEN l
        ELSE IF IsNone(l.ret) THEN Ret(l.w, None)
        ELSE IF The(l.ret) = << >> THEN Ret(l.w, None)
        ELSE IF Truthy(version)
             THEN IF \E i \in 1..Len(The(l.ret)) : The(l.ret)[i] = The(version)
                  THEN Ret(l.w, version) ELSE Ret(l.w, None)
        ELSE Ret(l.w, Some(find_latest_version(The(l.ret))[1]))

\* resolve_version
resolve_version(w, t, package, version, resp) ==
    LET l == VersionList(w, t, package, resp)
    IN  IF Truthy(version) THEN Ret(w, version)
        ELSE IF l.exc # "" THEN l
        ELSE IF IsNone(l.ret) THEN Ret(l.w, None)
        ELSE IF The(l.ret) = << >> THEN Ret(l.w, None)
        ELSE Ret(l.w, Some(find_latest_version(The(l.ret))[1]))

\* get_status
get_status(w, t, package, version, resp) ==
    LET cache_key == KeyStatus(package, version)
        cached == cache_get(w.cache, cache_key, t)
        f == fetch_json(w, UrlStatus(package, version), resp)
    IN  IF ~IsNone(cached) THEN Ret(w, cached)
        ELSE IF f.exc # "" THEN f
        ELSE IF ~IsNone(f.ret)
             THEN Ret(cache_set(f.w, cache_key, The(f.ret), TTL_STATUS, t), f.ret)
        ELSE Ret(f.w, f.ret)

\* get_doc_json caching for as long as get_status does
get_doc_json_long(w, t, package, version, path, resp) ==
    LET cache_key == KeyDoc(package, version, path)
        cached == cache_get(w.cache, cache_key, t)
        f == fetch_json(w, UrlDoc(package, version, path), resp)
    IN  IF ~IsNone(cached) THEN Ret(w, cached)
        ELSE IF f.exc # "" THEN f
        ELSE IF ~IsNone(f.ret)
             THEN Ret(cache_set(f.w, cache_key, The(f.ret), TTL_STATUS, t), f.ret)
        ELSE Ret(f.w, f.ret)

\* get_doc_json
get_doc_json(w, t, package, version, path, resp) ==
    LET cache_key == KeyDoc(package, version, path)
        cached == cache_get(w.cache, cache_key, t)
        f == fetch_json(w, UrlDoc(package, version, path), resp)
    IN  IF ~IsNone(cached) THEN Ret(w, cached)
        ELSE IF f.exc # "" THEN f
        ELSE IF ~IsNone(f.ret)
             THEN Ret(cache_set(f.w, cache_key, The(f.ret), TTL_DOC, t), f.ret)
        ELSE Ret(f.w, f.ret)

\* ------------------------------------------------------------------------
\* JSON values
\* ------------------------------------------------------------------------

\* A parsed JSON object with the keys the server reads, each None when the
\* object lacks it; a JSON value that is no object has type "array".
JsonObject(failed, files, preamble, content) ==
    [type |-> "object", failed |-> failed, files |-> files,
     preamble |-> preamble, content |-> content]

JsonArray ==
    [type |-> "array", failed |-> None, files |-> None, preamble |-> None,
     content |-> None]

\* ------------------------------------------------------------------------
\* HTML fragments, as BeautifulSoup parses them
\* ------------------------------------------------------------------------

\* A fragment is the sequence of its top-level elements. An element has a
\* tag, its class tokens, its id attribute (None if it has none), the text of
\* its first code descendant (None if it has none), its own text
\* (get_text(strip=True)), the texts of its p descendants, its li descendants
\* (each with the text of its first link, None without a link, and its whole
\* text) and its child elements (kids); a child has no kids of its own.
Element(tag, cls, id, code, text, paras, items, kids) ==
    [tag |-> tag, cls |-> cls, id |-> id, code |-> code, text |-> text,
     paras |-> paras, items |-> items, kids |-> kids]

Li(link, text) == [link |-> link, text |-> text]

\* The concatenation of a sequence of sequences, by halves
RECURSIVE Flatten(_)
Flatten(seqs) ==
    IF seqs = << >> THEN << >>
    ELSE IF Len(seqs) = 1 THEN seqs[1]
    ELSE LET half == Len(seqs) \div 2
         IN  Flatten(SubSeq(seqs, 1, half)) \o Flatten(SubSeq(seqs, half + 1, Len(seqs)))

\* element.find_all("p"), and the element itself if it is a p
PTexts(e) ==
    (IF e.tag = "p" THEN << e.text >> ELSE << >>) \o e.paras
       \o Flatten([i \in 1..Len(e.kids) |->
                     (IF e.kids[i].tag = "p" THEN << e.kids[i].text >> ELSE << >>)
                        \o e.kids[i].paras])

\* find_all("div", class_=c) matches a div that has c among its classes
IsDiv(e, c) == e.tag = "div" /\ c \in e.cls

\* find_next_sibling("div", class_="spec-doc") of sibs[i]
NextSpecDoc(sibs, i) ==
    LET later == {j \in (i + 1)..Len(sibs) : IsDiv(sibs[j], "spec-doc")}
    IN  IF later = {} THEN None
        ELSE Some(sibs[CHOOSE j \in later : \A k \in later : j <= k])

\* soup.find_all("div", class_="spec") in document order, each with its
\* next spec-doc sibling
SpecsAmong(sibs) ==
    [i \in 1..Len(sibs) |->
        IF IsDiv(sibs[i], "spec")
        THEN << [div |-> sibs[i], doc |-> NextSpecDoc(sibs, i)] >> ELSE << >>]

SpecDivs(html) ==
    LET top == SpecsAmong(html)
    IN  Flatten([i \in 1..Len(html) |->
                    top[i] \o Flatten(SpecsAmong(html[i].kids))])

\* ------------------------------------------------------------------------
\* HTML-to-text extraction for odoc content
\* ------------------------------------------------------------------------

\* extract_preamble_text
extract_preamble_text(html) ==
    IF html = << >> THEN << >>
    ELSE Strip(Join(Flatten([i \in 1..Len(html) |-> PTexts(html[i])]), << " " >>))

\* The kind and name of a spec item, by the prefix of its anchor
Categorize(anchor) ==
    IF StartsWith(anchor, << "v", "a", "l", "-" >>) THEN <<"val", Drop(anchor, 4)>>
    ELSE IF StartsWith(anchor, << "t", "y", "p", "e", "-" >>) THEN <<"type", Drop(anchor, 5)>>
    ELSE IF StartsWith(anchor, << "m", "o", "d", "u", "l", "e", "-", "t", "y", "p", "e", "-" >>) THEN <<"module type", Drop(anchor, 12)>>
    ELSE IF StartsWith(anchor, << "m", "o", "d", "u", "l", "e", "-" >>) THEN <<"module", Drop(anchor, 7)>>
    ELSE IF StartsWith(anchor, << "e", "x", "c", "e", "p", "t", "i", "o", "n", "-" >>) THEN <<"exception", Drop(anchor, 10)>>
    ELSE IF StartsWith(anchor, << "c", "l", "a", "s", "s", "-" >>) THEN <<"class", Drop(anchor, 6)>>
    ELSE <<"other", anchor>>

\* The item extract_specs makes of one spec div
SpecItem(spec) ==
    LET anchor == IF IsNone(spec.div.id) THEN << >> ELSE The(spec.div.id)
        signature == IF IsNone(spec.div.code) THEN << >> ELSE The(spec.div.code)
        doc == IF IsNone(spec.doc) THEN << >>
               ELSE Strip(Join(PTexts(The(spec.doc)), << " " >>))
        kind_name == Categorize(anchor)
    IN  [kind |-> kind_name[1], name |-> kind_name[2],
         signature |-> signature, doc |-> doc]

\* The loop of extract_specs. A turn that does not break appends one item, so
\* turn i starts with i - 1 items; the loop breaks at the first turn that
\* starts with limit items or more, and else runs through all the spec divs.
SpecLoop(specs, limit) ==
    LET breaks == {i \in 1..Len(specs) : i - 1 >= limit}
        turns == IF breaks = {} THEN Len(specs)
                 ELSE (CHOOSE i \in breaks : \A j \in breaks : i <= j) - 1
    IN  << [i \in 1..turns |-> SpecItem(specs[i])], breaks # {} >>

\* extract_specs reporting truncated as soon as limit items were collected
extract_specs_full(html, limit) ==
    LET r == SpecLoop(SpecDivs(html), limit)
    IN  IF html = << >> THEN << << >>, FALSE >>
        ELSE << r[1], Len(r[1]) >= limit >>

\* extract_specs -> (items, truncated)
extract_specs(html, limit) ==
    IF html = << >> THEN << << >>, FALSE >>
    ELSE SpecLoop(SpecDivs(html), limit)

\* The modules a ul or dl lists: its li elements that hold a link
RECURSIVE ModulesOf(_)
ModulesOf(items) ==
    IF items = << >> THEN << >>
    ELSE LET li == Head(items)
             mod_name == The(li.link)
             synopsis == Strip(LStrip(Strip(Drop(li.text, Len(mod_name))), ":"))
         IN  (IF IsNone(li.link) THEN << >>
              ELSE << [name |-> mod_name, synopsis |-> synopsis] >>)
                 \o ModulesOf(Tail(items))

\* One turn of the loop opening the default library for every ul or dl,
\* also one that lists no module
LibraryStep_always(acc, element) ==
    LET a1 == IF element.tag = "h2"
              THEN [libraries |-> IF IsNone(acc.current) THEN acc.libraries
                                  ELSE Append(acc.libraries, The(acc.current)),
                    current |-> Some([name |-> element.text, modules |-> << >>])]
              ELSE acc
        modules == ModulesOf(element.items)
        open == IF IsNone(a1.current) THEN [name |-> << "d", "e", "f", "a", "u", "l", "t" >>, modules |-> << >>]
                ELSE The(a1.current)
    IN  IF element.tag \in {"ul", "dl"}
        THEN [a1 EXCEPT !.current = Some([open EXCEPT !.modules = @ \o modules])]
        ELSE a1

\* One turn of the loop of extract_package_libraries over soup.children;
\* acc holds libraries and current_lib
LibraryStep(acc, element) ==
    LET a1 == IF element.tag = "h2"
              THEN [libraries |-> IF IsNone(acc.current) THEN acc.libraries
                                  ELSE Append(acc.libraries, The(acc.current)),
                    current |-> Some([name |-> element.text, modules |-> << >>])]
              ELSE acc
        modules == ModulesOf(element.items)
        open == IF IsNone(a1.current) THEN [name |-> << "d", "e", "f", "a", "u", "l", "t" >>, modules |-> << >>]
                ELSE The(a1.current)
    IN  IF element.tag \in {"ul", "dl"} /\ modules # << >>
        THEN [a1 EXCEPT !.current = Some([open EXCEPT !.modules = @ \o modules])]
        ELSE a1

RECURSIVE LibraryLoop(_, _)
LibraryLoop(acc, elements) ==
    IF elements = << >> THEN acc
    ELSE LibraryLoop(LibraryStep(acc, Head(elements)), Tail(elements))

\* extract_package_libraries
extract_package_libraries(html) ==
    LET acc == LibraryLoop([libraries |-> << >>, current |-> None], html)
    IN  IF html = << >> THEN << >>
        ELSE IF IsNone(acc.current) THEN acc.libraries
        ELSE Append(acc.libraries, The(acc.current))

\* ------------------------------------------------------------------------
\* Query tools on the backend
\* ------------------------------------------------------------------------

\* A result record carrying an error message. A message is the tuple of its
\* format string and the values put into it.
Error(msg) == [error |-> msg]

\* try: ... except Exception as e: return {"error": f"<msg>: {e}"}
Try(r, msg) == IF r.exc # "" THEN Ret(r.w, Error(<<msg, r.exc>>)) ELSE r

SEARCH_RESULTS == 20
PACKAGE_MATCHES == 50
HINT_MODULES == 30
SPEC_LIMIT == 100

\* f"https://doc.sherlocode.com/api?q={quote(query)}", quote leaving the
\* letters of a name as they are
UrlSherlodoc(query) ==
    << "h", "t", "t", "p", "s", ":", "/", "/", "d", "o", "c", ".", "s", "h", "e", "r", "l", "o", "c", "o", "d", "e", ".", "c", "o", "m", "/", "a", "p", "i", "?", "q", "=" >> \o query

\* A Sherlodoc page is the sequence of its li elements. An li has the text of
\* its pre (None without a pre), the href of the link in the pre (None without
\* a link or a href), the text of the em in the link (None without one) and
\* the texts of the p elements of its comment div.
SearchLi(pre, href, em, comment) ==
    [pre |-> pre, href |-> href, em |-> em, comment |-> comment]

\* The result sherlodoc makes of one li; it is kept if it has a signature
SearchResult(item) ==
    (IF IsNone(item.pre) THEN << >>
     ELSE ("signature" :> The(item.pre))
          @@ (IF IsNone(item.href) \/ The(item.href) = << >> THEN << >>
              ELSE ("url" :> The(item.href))
                   @@ (IF IsNone(item.em) THEN << >>
                       ELSE ("module_path" :> The(item.em)))))
    @@ (IF item.comment = << >> THEN << >>
        ELSE ("documentation" :> Join(item.comment, << " " >>)))

RECURSIVE SearchResults(_)
SearchResults(lis) ==
    IF lis = << >> THEN << >>
    ELSE LET result == SearchResult(Head(lis))
         IN  (IF "signature" \in DOMAIN result /\ result["signature"] # << >>
              THEN << result >> ELSE << >>) \o SearchResults(Tail(lis))

sherlodoc_body(w, query, resp) ==
    LET w1 == get_session(w)
        w2 == [w1 EXCEPT !.reqs = Append(w1.reqs, UrlSherlodoc(query))]
        results == SearchResults(Take(The(resp.data), SEARCH_RESULTS))
    IN  IF resp.kind = "error" THEN Raise(w2, "ClientError")
        ELSE IF resp.status # 200
             THEN Ret(w2, Error(<<"Sherlodoc returned status {}", resp.status>>))
        ELSE Ret(w2, [query |-> query, results |-> results,
                      total_results |-> Len(results)])

\* sherlodoc
sherlodoc(w, query, resp) ==
    LET r == sherlodoc_body(w, query, resp)
    IN  IF r.exc = "ClientError"
        THEN Ret(r.w, Error(<<"Failed to connect to Sherlodoc: {}", r.exc>>))
        ELSE Try(r, "Sherlodoc search failed: {}")

\* [p for p in packages if q in p.lower()]
RECURSIVE Matching(_, _)
Matching(packages, q) ==
    IF packages = << >> THEN << >>
    ELSE (IF Contains(Lower(Head(packages)), q) THEN << Head(packages) >> ELSE << >>)
            \o Matching(Tail(packages), q)

\* search_package_names
search_package_names(w, t, query, resp) ==
    LET p == get_all_packages(w, t, resp)
        matches == Matching(p.ret, Lower(query))
    IN  Try(IF p.exc # "" THEN p
            ELSE Ret(p.w, [query |-> query,
                           matches |-> Take(matches, PACKAGE_MATCHES),
                           total_matches |-> Len(matches)]),
            "Package search failed: {}")

\* A JSON value has .get if it is an object
HasGet(json) == json.type = "object"

\* dict.get(key, default)
GetOr(field, default) == IF IsNone(field) THEN default ELSE The(field)

\* "if doc:" is false for None and for the empty object
TruthyJson(o) ==
    /\ ~IsNone(o)
    /\ \/ The(o).type # "object"
       \/ \E k \in {"failed", "files", "preamble", "content"} : ~IsNone(The(o)[k])

\* get_package_info, before its except clause; net holds what the backend
\* answers for the version listing, the status.json and the doc fragment
get_package_info_body(w, t, package_name, version, net) ==
    LET v == resolve_version(w, t, package_name, version, net.listing)
        ver == The(v.ret)
        s == get_status(v.w, t, package_name, ver, net.status)
        status == The(s.ret)
        d == get_doc_json(s.w, t, package_name, ver,
                          << "d", "o", "c", "/", "i", "n", "d", "e", "x", ".", "h", "t", "m", "l", ".", "j", "s", "o", "n" >>, net.doc)
        doc == The(d.ret)
        preamble == GetOr(doc.preamble, << >>)
        content == GetOr(doc.content, << >>)
        description == IF extract_preamble_text(preamble) # << >>
                       THEN extract_preamble_text(preamble)
                       ELSE extract_preamble_text(content)
    IN  IF v.exc # "" THEN v
        ELSE IF IsNone(v.ret)
             THEN Ret(v.w, Error(<<"Package '{}' not found on sage.ci.dev",
                                   package_name>>))
        ELSE IF s.exc # "" THEN s
        ELSE IF IsNone(s.ret)
             THEN Ret(s.w, Error(<<"Could not fetch status for {}/{}",
                                   package_name, ver>>))
        ELSE IF ~HasGet(status) THEN Raise(s.w, "AttributeError")
        ELSE IF d.exc # "" THEN d
        ELSE IF ~TruthyJson(d.ret)
             THEN Ret(d.w, [package |-> package_name, version |-> ver,
                            failed |-> GetOr(status.failed, TRUE),
                            description |-> << >>, libraries |-> << >>])
        ELSE IF ~HasGet(doc) THEN Raise(d.w, "AttributeError")
        ELSE Ret(d.w, [package |-> package_name, version |-> ver,
                       failed |-> GetOr(status.failed, TRUE),
                       description |-> description,
                       libraries |-> extract_package_libraries(content)])

\* get_package_info
get_package_info(w, t, package_name, version, net) ==
    Try(get_package_info_body(w, t, package_name, version, net),
        "Failed to get package info: {}")

\* The first file whose name ends with suffix, None if none does; names[i] is
\* the name files[i] is matched by
FirstMatch(files, names, suffix) ==
    LET hits == {i \in 1..Len(files) : EndsWith(names[i], suffix)}
    IN  IF hits = {} THEN None
        ELSE Some(files[CHOOSE i \in hits : \A j \in hits : i <= j])

\* find_module_file in one pass: the first file that matches whatever the case
find_module_file_single(files, module_path) ==
    LET parts == Split(module_path, ".")
        suffix == Join(parts, Slash) \o << "/", "i", "n", "d", "e", "x", ".", "h", "t", "m", "l" >>
    IN  FirstMatch(files, [i \in 1..Len(files) |-> Lower(files[i])],
                   Lower(suffix))

\* find_module_file: an exact suffix match, else a case-insensitive one
find_module_file(files, module_path) ==
    LET parts == Split(module_path, ".")
        suffix == Join(parts, Slash) \o << "/", "i", "n", "d", "e", "x", ".", "h", "t", "m", "l" >>
        exact == FirstMatch(files, files, suffix)
    IN  IF ~IsNone(exact) THEN exact
        ELSE FirstMatch(files, [i \in 1..Len(files) |-> Lower(files[i])],
                        Lower(suffix))

\* top_modules of get_module_doc: the second segment below doc/ of the files
\* that end in /index.html and have one
TopModules(files) ==
    {Split(Drop(files[i], 4), "/")[2] :
        i \in {j \in 1..Len(files) :
                 /\ StartsWith(files[j], << "d", "o", "c", "/" >>)
                 /\ EndsWith(files[j], << "/", "i", "n", "d", "e", "x", ".", "h", "t", "m", "l" >>)
                 /\ Len(Split(Drop(files[j], 4), "/")) >= 3}}

\* The hint giving every top-level module
Hint_all(files) == Sorted(TopModules(files))

\* hint = sorted(top_modules)[:30]
Hint(files) == Take(Sorted(TopModules(files)), HINT_MODULES)

\* The result record of a module's documentation, with the truncation note
ModuleResult(head, doc) ==
    LET preamble == extract_preamble_text(GetOr(doc.preamble, << >>))
        ex == extract_specs(GetOr(doc.content, << >>), SPEC_LIMIT)
        result == head @@ [preamble |-> preamble, items |-> ex[1]]
    IN  IF ex[2]
        THEN result @@ [truncated |-> TRUE,
                        note |-> "Output truncated at 100 items. The module has more entries."]
        ELSE result

\* get_module_doc from the fetched doc JSON on; d is what get_doc_json
\* returned
ModuleOfDoc(d, head) ==
    IF d.exc # "" THEN d
    ELSE IF IsNone(d.ret)
         THEN Ret(d.w, Error(<<"Could not fetch documentation for {}",
                               head.module>>))
    ELSE IF ~HasGet(The(d.ret)) THEN Raise(d.w, "AttributeError")
    ELSE Ret(d.w, ModuleResult(head, The(d.ret)))

\* get_module_doc from the file match on; s is what get_status returned and
\* matched_file what find_module_file found among files
ModuleOfFile(s, t, head, files, matched_file, resp) ==
    IF IsNone(matched_file)
    THEN Ret(s.w, [error |-> <<"Module '{}' not found in {}/{}",
                               head.module, head.package, head.version>>,
                   available_top_level |-> Hint(files)])
    ELSE ModuleOfDoc(get_doc_json(s.w, t, head.package, head.version,
                                  The(matched_file) \o << ".", "j", "s", "o", "n" >>, resp),
                     head)

\* get_module_doc from the fetched status on
ModuleOfStatus(s, t, head, resp) ==
    IF s.exc # "" THEN s
    ELSE IF IsNone(s.ret)
         THEN Ret(s.w, Error(<<"Could not fetch status for {}/{}",
                               head.package, head.version>>))
    ELSE IF ~HasGet(The(s.ret)) THEN Raise(s.w, "AttributeError")
    ELSE ModuleOfFile(s, t, head, GetOr(The(s.ret).files, << >>),
                      find_module_file(GetOr(The(s.ret).files, << >>),
                                       head.module),
                      resp)

\* get_module_doc from the resolved version on; v is what resolve_version
\* returned
ModuleOfVersion(v, t, package_name, module_path, net) ==
    IF v.exc # "" THEN v
    ELSE IF IsNone(v.ret)
         THEN Ret(v.w, Error(<<"Package '{}' not found on sage.ci.dev",
                               package_name>>))
    ELSE ModuleOfStatus(get_status(v.w, t, package_name, The(v.ret), net.status),
                        t,
                        [package |-> package_name, version |-> The(v.ret),
                         module |-> module_path],
                        net.doc)

\* get_module_doc, before its except clause
get_module_doc_body(w, t, package_name, module_path, version, net) ==
    ModuleOfVersion(resolve_version(w, t, package_name, version, net.listing),
                    t, package_name, module_path, net)

\* get_module_doc
get_module_doc(w, t, package_name, module_path, version, net) ==
    Try(get_module_doc_body(w, t, package_name, module_path, version, net),
        "Failed to get module doc: {}")

\* ------------------------------------------------------------------------
\* Local odoc tools
\* ------------------------------------------------------------------------

_SKIP_DIRS == {<< "o", "d", "o", "c", ".", "s", "u", "p", "p", "o", "r", "t" >>}

KeyLocalModules == << "l", "o", "c", "a", "l", "_", "m", "o", "d", "u", "l", "e", "s" >>
TTL_LOCAL_MODULES == 300

IndexJson == << "i", "n", "d", "e", "x", ".", "h", "t", "m", "l", ".", "j", "s", "o", "n" >>

\* What the local docs path holds when it is looked at: whether it is a
\* directory, whether the directory can be listed (iterdir raises
\* PermissionError if not) and its entries. An entry has a name, is a
\* directory or not, and holds index.html.json files: docs maps the directory
\* parts leading to such a file (<< >> for the one at the top of the entry) to
\* the file, of which valid tells whether it parses as JSON and data is the
\* parsed value.
Tree(is_dir, listable, entries) ==
    [is_dir |-> is_dir, listable |-> listable, entries |-> entries]

Entry(name, is_dir, docs) == [name |-> name, is_dir |-> is_dir, docs |-> docs]

File(valid, data) == [valid |-> valid, data |-> data]

\* a < b on paths: part by part
RECURSIVE PartsLess(_, _)
PartsLess(a, b) ==
    IF b = << >> THEN FALSE
    ELSE IF a = << >> THEN TRUE
    ELSE IF Head(a) = Head(b) THEN PartsLess(Tail(a), Tail(b))
    ELSE StrLess(Head(a), Head(b))

\* sorted(lib_dir.rglob("index.html.json")), each path by its directory parts
RECURSIVE SortedPaths(_)
SortedPaths(S) ==
    IF S = {} THEN << >>
    ELSE LET least == CHOOSE x \in S : \A y \in S :
                          x = y \/ PartsLess(x \o << IndexJson >>, y \o << IndexJson >>)
         IN  << least >> \o SortedPaths(S \ {least})

\* sorted(root.iterdir()), without the entries the loops skip
LibDirs(fs) ==
    LET names == Sorted({e.name : e \in fs.entries})
        dirs == [i \in 1..Len(names) |->
                    LET e == CHOOSE e \in fs.entries : e.name = names[i]
                    IN  IF ~e.is_dir \/ e.name \in _SKIP_DIRS THEN << >>
                        ELSE << e >>]
    IN  Flatten(dirs)

\* The modules of one library directory
LibModules(lib_dir) ==
    LET files == SortedPaths(DOMAIN lib_dir.docs)
    IN  Flatten([i \in 1..Len(files) |->
                    IF files[i] = << >> THEN << >>
                    ELSE << [library |-> lib_dir.name,
                             module_path |-> Join(files[i], << "." >>)] >>])

\* _scan_local_modules
_scan_local_modules(fs) ==
    LET dirs == LibDirs(fs)
    IN  Flatten([i \in 1..Len(dirs) |-> LibModules(dirs[i])])

NotConfigured ==
    Error(<<"Local docs not configured. Start the server with --local-docs <path>.">>)

\* list_local_modules
list_local_modules(w, t, root, fs) ==
    LET cached == cache_get(w.cache, KeyLocalModules, t)
        modules == _scan_local_modules(fs)
        result == [modules |-> modules, total |-> Len(modules)]
    IN  IF IsNone(root) THEN Ret(w, NotConfigured)
        ELSE IF ~IsNone(cached) THEN Ret(w, The(cached))
        ELSE IF ~fs.is_dir
             THEN Ret(w, Error(<<"Local docs path does not exist: {}", The(root)>>))
        ELSE IF ~fs.listable THEN Raise(w, "PermissionError")
        ELSE Ret(cache_set(w, KeyLocalModules, result, TTL_LOCAL_MODULES, t), result)

\* get_local_module_doc
get_local_module_doc(w, root, fs, module_path) ==
    LET parts == Split(module_path, ".")
        dirs == LibDirs(fs)
        found == {i \in 1..Len(dirs) : parts \in DOMAIN dirs[i].docs}
        lib_dir == dirs[CHOOSE i \in found : \A j \in found : i <= j]
        candidate == lib_dir.docs[parts]
        doc == The(candidate.data)
    IN  IF IsNone(root) THEN Ret(w, NotConfigured)
        ELSE IF ~fs.is_dir
             THEN Ret(w, Error(<<"Local docs path does not exist: {}", The(root)>>))
        ELSE IF ~fs.listable THEN Raise(w, "PermissionError")
        ELSE IF found = {}
             THEN Ret(w, Error(<<"Module '{}' not found in local docs", module_path>>))
        ELSE IF ~candidate.valid THEN Raise(w, "JSONDecodeError")
        ELSE IF IsNone(candidate.data) \/ ~HasGet(doc) THEN Raise(w, "AttributeError")
        ELSE Ret(w, ModuleResult([library |-> lib_dir.name,
                                  module |-> module_path], doc))

\* ------------------------------------------------------------------------
\* The retrieval layer: what is asked and what the backend answers
\* ------------------------------------------------------------------------

Lwt == << "l", "w", "t" >>
V10 == << "1", ".", "0" >>
V99 == << "9", ".", "9" >>
DocIndexJson == << "d", "o", "c", "/", "i", "n", "d", "e", "x", ".", "h", "t", "m", "l", ".", "j", "s", "o", "n" >>

Packages == {Lwt}
\* The version argument: absent, empty, listed, not listed.
VersionArgs == {None, Some(<< >>), Some(V10), Some(V99)}

PageEmpty == << << ".", ".", "/" >> >>
PageTwo == << << "?", "C" >>, << ".", ".", "/" >>, << "1", ".", "0", "/" >>, << "2", ".", "0", "/" >>, << "/", "p", "/" >>, << "a", ".", "t", "x", "t" >> >>

NotFound == Response("http", 404, FALSE, None)
ServerError == Response("http", 500, FALSE, None)
Ok(data) == Response("http", 200, TRUE, Some(data))

\* What the backend may answer for the package catalog, for a version
\* listing, for a status.json and for a doc fragment.
CatalogResponses == {TransportError, NotFound, Ok(<< << "l", "w", "t", "/" >> >>)}
ListingResponses == {TransportError, NotFound, Ok(PageEmpty), Ok(PageTwo)}

StatusBuilt == JsonObject(Some(FALSE), Some(<< << "d", "o", "c", "/", "l", "w", "t", "/", "L", "w", "t", "/", "i", "n", "d", "e", "x", ".", "h", "t", "m", "l" >> >>), None, None)
StatusFailed == JsonObject(Some(TRUE), Some(<< >>), None, None)
DocEmpty == JsonObject(None, None, Some(<< >>), Some(<< >>))

\* A body that is not JSON, and the JSON value null.
Malformed == Response("http", 200, FALSE, None)
JsonNull == Response("http", 200, TRUE, None)

StatusResponses ==
    {TransportError, ServerError, Malformed, JsonNull, Ok(StatusBuilt), Ok(StatusFailed)}
DocResponses == {TransportError, NotFound, Ok(DocEmpty)}

\* What a request met: "error" (the transport failed), "non200", "bad_body"
\* (a 200 whose body is not JSON), "null" (a 200 with no value) or "ok".
Met(resp) ==
    IF resp.kind = "error" THEN "error"
    ELSE IF resp.status # 200 THEN "non200"
    ELSE IF ~resp.valid THEN "bad_body"
    ELSE IF IsNone(resp.data) THEN "null"
    ELSE "ok"

\* ------------------------------------------------------------------------
\* Calls
\* ------------------------------------------------------------------------

\* last: the latest call, with the number of calls made (mod 2), the cache
\* key it looked up (<< >> if none), the URLs it requested, what its request
\* met ("none" without a request), and its outcome.
Idle ==
    [seq |-> 0, op |-> "none", args |-> << >>, key |-> << >>, reqs |-> << >>,
     net |-> "none", exc |-> "", ret |-> None]

\* tasks: the coroutines that run concurrently, each with its position; none
\* where calls run one at a time
NoTasks == << >>

\* The call op(args) that looked up key and ended as r, the backend having
\* answered resp to its request.
Return(op, args, key, resp, r) ==
    /\ cache' = r.w.cache
    /\ stored' = r.w.stored
    /\ session' = r.w.session
    /\ closes' = r.w.closes
    /\ last' = [seq |-> 1 - last.seq, op |-> op, args |-> args, key |-> key,
                reqs |-> r.w.reqs,
                net |-> IF r.w.reqs = << >> THEN "none" ELSE Met(resp),
                exc |-> r.exc, ret |-> r.ret]
    /\ UNCHANGED <<now, lifespan, local_docs_root, tasks>>

FetchText ==
    \E resp \in ListingResponses :
        Return("fetch_text", << UrlVersions(Lwt) >>, << >>, resp,
               fetch_text(World, UrlVersions(Lwt), resp))

FetchJson ==
    \E resp \in StatusResponses :
        Return("fetch_json", << UrlStatus(Lwt, V10) >>, << >>, resp,
               fetch_json(World, UrlStatus(Lwt, V10), resp))

GetAllPackages ==
    \E resp \in CatalogResponses :
        Return("get_all_packages", << >>, KeyAllPackages, resp,
               get_all_packages(World, now, resp))

ResolveVersion ==
    \E package \in Packages, version \in VersionArgs, resp \in ListingResponses :
        Return("resolve_version", <<package, version>>,
               IF Truthy(version) THEN << >> ELSE KeyVersions(package), resp,
               resolve_version(World, now, package, version, resp))

GetStatus ==
    \E package \in Packages, version \in {V10}, resp \in StatusResponses :
        Return("get_status", <<package, version>>, KeyStatus(package, version),
               resp, get_status(World, now, package, version, resp))

GetDocJson ==
    \E package \in Packages, version \in {V10}, path \in {DocIndexJson},
       resp \in DocResponses :
        Return("get_doc_json", <<package, version, path>>,
               KeyDoc(package, version, path), resp,
               get_doc_json(World, now, package, version, path, resp))

\* Time passes.
Advance ==
    /\ now + Tick <= MaxTime
    /\ now' = now + Tick
    /\ UNCHANGED <<cache, stored, session, closes, lifespan, local_docs_root, last, tasks>>

\* lifespan after its yield: the server shuts down and the session, if one
\* is open, is closed.
Shutdown ==
    /\ lifespan = "running"
    /\ lifespan' = "exited"
    /\ closes' = IF session # 0 /\ closes[session] = 0
                 THEN [closes EXCEPT ![session] = @ + 1]
                 ELSE closes
    /\ UNCHANGED <<now, cache, stored, session, local_docs_root, last, tasks>>

Init ==
    /\ now = 0
    /\ cache = << >>
    /\ stored = << >>
    /\ session = 0
    /\ closes = << >>
    /\ lifespan = "running"
    /\ local_docs_root = None
    /\ last = Idle
    /\ tasks = NoTasks

\* The retrieval layer: the cached lookups, and time passing.
Next ==
    \/ GetAllPackages
    \/ ResolveVersion
    \/ GetStatus
    \/ GetDocJson
    \/ Advance

Spec == Init /\ [][Next]_vars

\* The session: requests of the fetching helpers, on their own and from a
\* cached lookup, and the shutdown.
NextSession ==
    \/ FetchText
    \/ FetchJson
    \/ GetStatus
    \/ Shutdown

SpecSession == Init /\ [][NextSession]_vars

\* ------------------------------------------------------------------------
\* The cache on its own: cache_set and cache_get called with any key, value
\* and ttl, one second a step
\* ------------------------------------------------------------------------

CacheKeys == {KeyAllPackages, KeyVersions(Lwt)}
CacheValues == {PageEmpty, PageTwo}

CacheSet ==
    \E key \in CacheKeys, value \in CacheValues, ttl \in 0..MaxTtl :
        Return("cache_set", <<key, value, ttl>>, key, TransportError,
               Ret(cache_set(World, key, value, ttl, now), None))

CacheGet ==
    \E key \in CacheKeys :
        Return("cache_get", <<key>>, key, TransportError,
               Ret(World, cache_get(cache, key, now)))

Tock ==
    /\ now + 1 <= MaxCacheTime
    /\ now' = now + 1
    /\ UNCHANGED <<cache, stored, session, closes, lifespan, local_docs_root, last, tasks>>

NextCache ==
    \/ CacheSet
    \/ CacheGet
    \/ Tock

SpecCache == Init /\ [][NextCache]_vars

\* ------------------------------------------------------------------------
\* The query tools: what they are asked and what they find
\* ------------------------------------------------------------------------

\* The most spec containers and the largest limit of a bare extract_specs.
MaxSpecs == 2
\* The number of modules of the large package.
MaxModules == 32

\* The name of the i-th module or spec item: three letters, in the order of i.
ItemName(i) ==
    LET k == Len(LowerCase)
    IN  << UpperCase[((i - 1) \div (k * k)) + 1],
           LowerCase[(((i - 1) \div k) % k) + 1],
           LowerCase[((i - 1) % k) + 1] >>

Para(text) == Element("p", {}, None, None, text, << >>, << >>, << >>)

\* The i-th spec container, and the documentation that follows it
SpecDiv(i) ==
    Element("div", {"spec", "value"},
            Some((IF i % 3 = 0 THEN << "t", "y", "p", "e", "-" >>
                  ELSE IF i % 3 = 1 THEN << "v", "a", "l", "-" >> ELSE << "m", "o", "d", "u", "l", "e", "-", "t", "y", "p", "e", "-" >>)
                 \o ItemName(i)),
            Some(<< "i", "n", "t" >>), << >>, << >>, << >>, << >>)

SpecDocDiv(i) ==
    Element("div", {"spec-doc"}, None, None, << >>, << ItemName(i) >>, << >>, << >>)

\* A fragment of n spec containers that are siblings, every other one with
\* its documentation, after a leading paragraph if lead
FlatHtml(n, lead) ==
    (IF lead THEN << Para(<< "a", " ", "b" >>) >> ELSE << >>)
       \o Flatten([i \in 1..n |->
                     IF i % 2 = 1 THEN << SpecDiv(i), SpecDocDiv(i) >>
                     ELSE << SpecDiv(i) >>])

\* A fragment of n spec containers, each with its documentation in a div of
\* its own
WrappedHtml(n) ==
    [i \in 1..n |->
        Element("div", {"odoc-include"}, None, None, << >>, << ItemName(i) >>,
                << >>, << SpecDiv(i), SpecDocDiv(i) >>)]

\* The doc JSON of a module with n spec items
ModuleDoc(n) ==
    JsonObject(None, None, Some(<< Para(<< "a", " ", "b" >>) >>), Some(WrappedHtml(n)))

\* The doc JSON of a package index: a library heading and its module list
PackageDoc ==
    JsonObject(None, None, Some(<< >>),
               Some(<< Para(<< "a", " ", "b" >>),
                       Element("h2", {}, None, None, << "L", "i", "b", "r", "a", "r", "y", " ", "l", "w", "t" >>, << >>, << >>, << >>),
                       Element("ul", {}, None, None, << >>, << >>,
                               << Li(Some(<< "L", "w", "t" >>), << "L", "w", "t", ":", " ", "a", " ", "b" >>), Li(None, << "a" >>) >>,
                               << >>) >>))

\* The file list of the large package: MaxModules modules from the last to
\* the first, one of them with a submodule, and files that name no module
ManyFiles ==
    << << "d", "o", "c", "/", "l", "w", "t", "/", "i", "n", "d", "e", "x", ".", "h", "t", "m", "l" >>, << "s", "r", "c", "/", "l", "w", "t", "/", "F", "x", "/", "i", "n", "d", "e", "x", ".", "h", "t", "m", "l" >>, << "d", "o", "c", "/", "l", "w", "t", "/", "F", "y", "/", "p", "a", "g", "e", ".", "h", "t", "m", "l" >>,
       << "d", "o", "c", "/", "l", "w", "t", "/" >> \o ItemName(1)
          \o << "/", "A", "b", "/", "i", "n", "d", "e", "x", ".", "h", "t", "m", "l" >> >>
       \o [i \in 1..MaxModules |->
             << "d", "o", "c", "/", "l", "w", "t", "/" >> \o ItemName(MaxModules + 1 - i) \o << "/", "i", "n", "d", "e", "x", ".", "h", "t", "m", "l" >>]

StatusMany == JsonObject(Some(FALSE), Some(ManyFiles), None, None)

ModulePaths == {<< "L", "w", "t" >>, << "M", "x" >>}

\* What the backend answers a tool for the version listing, the status.json
\* and the doc fragment. A request that follows a failed one is never made,
\* so its answer is left at TransportError.
Backends(statuses, docs) ==
    {net \in [listing : {TransportError, NotFound, Ok(PageTwo)},
              status : {TransportError} \cup statuses,
              doc : {TransportError} \cup docs] :
        /\ Met(net.listing) # "ok" => net.status = TransportError
        /\ Met(net.status) # "ok" => net.doc = TransportError}

PackageBackends ==
    Backends({ServerError, Ok(StatusBuilt), Ok(JsonArray)},
             {Ok(PackageDoc), Ok(JsonArray)})
\* No module path asked for is among the files of the large package, so no
\* doc fragment of it is requested.
ModuleBackends ==
    {net \in Backends({Ok(StatusBuilt), Ok(StatusMany)},
                      {NotFound, Ok(ModuleDoc(SPEC_LIMIT)),
                       Ok(ModuleDoc(SPEC_LIMIT + 1))}) :
        net.status = Ok(StatusMany) => net.doc = TransportError}

\* The fragments a bare extract_specs is given: the empty one, and those of
\* up to MaxSpecs spec containers after a paragraph
Fragments == {<< >>} \cup {FlatHtml(n, TRUE) : n \in 0..MaxSpecs}

\* The answer to the last request of a tool
Asked(net, reqs) ==
    IF reqs = << >> THEN TransportError
    ELSE IF reqs[Len(reqs)] = UrlVersions(Lwt) THEN net.listing
    ELSE IF EndsWith(reqs[Len(reqs)], << "/", "s", "t", "a", "t", "u", "s", ".", "j", "s", "o", "n" >>) THEN net.status
    ELSE net.doc

\* The call op(args) of a tool that ended as r on the backend net
ReturnAsked(op, args, net, r) ==
    Return(op, args, << >>, Asked(net, r.w.reqs), r)

\* Sherlodoc pages: two hits among three li, and more hits than are kept
PageHits ==
    << SearchLi(Some(<< "v", "a", "l", " ", "m", "a", "p" >>), Some(<< "/", "p", "/", "l", "w", "t" >>), Some(<< "L", "w", "t" >>), << << "a" >>, << "b" >> >>),
       SearchLi(None, None, None, << << "a" >> >>),
       SearchLi(Some(<< "v", "a", "l", " ", "m", "a", "p" >>), None, None, << >>) >>

PageLong ==
    [i \in 1..(SEARCH_RESULTS + 1) |->
        SearchLi(Some(<< "v", "a", "l", " " >> \o ItemName(i)), None, None, << >>)]

SherlodocResponses == {TransportError, ServerError, Ok(PageHits), Ok(PageLong)}

\* The local docs path, and what it may hold
LocalRoot == << "d", "o", "c", "s" >>

FsMissing == Tree(FALSE, FALSE, {})
FsUnreadable == Tree(TRUE, FALSE, {})
FsDocs ==
    Tree(TRUE, TRUE,
         {Entry(<< "l", "w", "t" >>, TRUE,
                (<< >> :> File(TRUE, Some(PackageDoc)))
                   @@ (<< << "L", "w", "t" >> >> :> File(TRUE, Some(ModuleDoc(0))))
                   @@ (<< << "L", "w", "t" >>, << "A", "b" >> >> :> File(FALSE, None))
                   @@ (<< << "A", "c" >> >> :> File(TRUE, Some(JsonArray)))),
          Entry(<< "b", "a", "s", "e" >>, TRUE,
                (<< << "L", "w", "t" >> >> :> File(TRUE, Some(ModuleDoc(1))))
                   @@ (<< << "A", "a" >> >> :> File(TRUE, Some(ModuleDoc(SPEC_LIMIT))))
                   @@ (<< << "A", "b" >> >> :> File(TRUE, Some(ModuleDoc(SPEC_LIMIT + 1))))),
          Entry(<< "o", "d", "o", "c", ".", "s", "u", "p", "p", "o", "r", "t" >>, TRUE, (<< << "F", "x" >> >> :> File(TRUE, Some(ModuleDoc(1))))),
          Entry(<< "d", "u", "n", "e" >>, FALSE, << >>)})

LocalTrees == {FsMissing, FsUnreadable, FsDocs}
LocalModulePaths == {<< "L", "w", "t" >>, << "A", "a" >>, << "A", "b" >>, << "A", "c" >>, << "L", "w", "t", ".", "A", "b" >>, << "M", "x" >>}

Sherlodoc ==
    \E query \in {<< "m", "a", "p" >>}, resp \in SherlodocResponses :
        Return("sherlodoc", << query >>, << >>, resp, sherlodoc(World, query, resp))

SearchPackageNames ==
    \E query \in {<< "L", "W" >>, << "x" >>}, resp \in CatalogResponses :
        Return("search_package_names", << query >>, KeyAllPackages, resp,
               search_package_names(World, now, query, resp))

GetPackageInfo ==
    \E package_name \in Packages, net \in PackageBackends :
        ReturnAsked("get_package_info", <<package_name, None>>, net,
                    get_package_info(World, now, package_name, None, net))

GetModuleDoc ==
    \E package_name \in Packages, module_path \in ModulePaths,
       net \in ModuleBackends :
        ReturnAsked("get_module_doc", <<package_name, module_path, None>>, net,
                    get_module_doc(World, now, package_name, module_path, None,
                                   net))

ListLocalModules ==
    \E fs \in LocalTrees :
        Return("list_local_modules", << fs >>, KeyLocalModules, TransportError,
               list_local_modules(World, now, local_docs_root, fs))

GetLocalModuleDoc ==
    \E fs \in LocalTrees, module_path \in LocalModulePaths :
        Return("get_local_module_doc", << module_path, fs >>, << >>, TransportError,
               get_local_module_doc(World, local_docs_root, fs, module_path))

ExtractSpecs ==
    \E html \in Fragments, limit \in 0..MaxSpecs :
        Return("extract_specs", << html, limit >>, << >>, TransportError,
               Ret(World, extract_specs(html, limit)))

\* The server started with or without --local-docs.
InitTools ==
    /\ now = 0
    /\ cache = << >>
    /\ stored = << >>
    /\ session = 0
    /\ closes = << >>
    /\ lifespan = "running"
    /\ local_docs_root \in {None, Some(LocalRoot)}
    /\ last = Idle
    /\ tasks = NoTasks

\* The tools that search and summarise.
NextSearch ==
    \/ Sherlodoc
    \/ SearchPackageNames
    \/ GetPackageInfo

SpecSearch == Init /\ [][NextSearch]_vars

\* The local tools.
NextLocal ==
    \/ ListLocalModules
    \/ GetLocalModuleDoc

SpecLocal == InitTools /\ [][NextLocal]_vars

\* Module documentation, from the backend and from the local docs, and the
\* extraction of spec items on its own.
NextModules ==
    \/ GetModuleDoc
    \/ GetLocalModuleDoc
    \/ ExtractSpecs

\* The server is started with --local-docs.
InitLocal == InitTools /\ local_docs_root = Some(LocalRoot)

SpecModules == InitLocal /\ [][NextModules]_vars

\* ------------------------------------------------------------------------
\* The module matcher: what it is asked and what it finds
\* ------------------------------------------------------------------------

\* The longest artifact list given to find_module_file.
MaxFiles == 2

\* Artifact paths: for the module Ab an exact match, one by case only and a
\* second exact one; for Ab.Cd an exact match and one by case only; a path
\* that is no index.html
ArtifactPaths ==
    {<< "d", "o", "c", "/", "A", "b", "/", "i", "n", "d", "e", "x", ".", "h", "t", "m", "l" >>, << "d", "o", "c", "/", "A", "B", "/", "i", "n", "d", "e", "x", ".", "h", "t", "m", "l" >>, << "s", "r", "c", "/", "A", "b", "/", "i", "n", "d", "e", "x", ".", "h", "t", "m", "l" >>,
     << "d", "o", "c", "/", "A", "b", "/", "C", "d", "/", "i", "n", "d", "e", "x", ".", "h", "t", "m", "l" >>, << "d", "o", "c", "/", "a", "b", "/", "c", "d", "/", "i", "n", "d", "e", "x", ".", "h", "t", "m", "l" >>, << "d", "o", "c", "/", "A", "b", "/", "p", "a", "g", "e", ".", "h", "t", "m", "l" >>}

\* The lists of at most n artifact paths
RECURSIVE FileLists(_)
FileLists(n) ==
    IF n = 0 THEN {<< >>}
    ELSE FileLists(n - 1)
            \cup {Append(fs, f) : fs \in {l \in FileLists(n - 1) : Len(l) = n - 1},
                                  f \in ArtifactPaths}

\* The module paths asked for: Ab, aB (no path has that case) and Ab.Cd
MatchedPaths == {<< "A", "b" >>, << "a", "B" >>, << "A", "b", ".", "C", "d" >>}

FindModuleFile ==
    \E files \in FileLists(MaxFiles), module_path \in MatchedPaths :
        Return("find_module_file", << files, module_path >>, << >>,
               TransportError, Ret(World, find_module_file(files, module_path)))

NextMatch == FindModuleFile

SpecMatch == Init /\ [][NextMatch]_vars

\* ------------------------------------------------------------------------
\* The library extractor: the pages it is given
\* ------------------------------------------------------------------------

\* The most top-level elements of a package index page.
MaxElements == 3

Heading(text) == Element("h2", {}, None, None, text, << >>, << >>, << >>)

\* A ul or dl of the given li elements
ListOf(tag, items) == Element(tag, {}, None, None, << >>, << >>, items, << >>)

\* The top-level elements of a page: two headings, a ul of two modules and
\* an li without a link, a dl of one module, a ul without any link, and a
\* paragraph
PageElements ==
    {Heading(<< "L", "i", "b", "r", "a", "r", "y", " ", "a" >>), Heading(<< "L", "i", "b", "r", "a", "r", "y", " ", "b" >>),
     ListOf("ul", << Li(Some(<< "A", "b" >>), << "A", "b", ":", " ", "a", " ", "b" >>), Li(None, << "a" >>), Li(Some(<< "C", "d" >>), << "C", "d" >>) >>),
     ListOf("dl", << Li(Some(<< "E", "f" >>), << "E", "f", " ", "a" >>) >>),
     ListOf("ul", << Li(None, << "a" >>) >>),
     Para(<< "a", " ", "b" >>)}

\* The pages of at most n top-level elements
RECURSIVE Pages(_)
Pages(n) ==
    IF n = 0 THEN {<< >>}
    ELSE Pages(n - 1)
            \cup {Append(page, e) : page \in {p \in Pages(n - 1) : Len(p) = n - 1},
                                    e \in PageElements}

ExtractPackageLibraries ==
    \E html \in Pages(MaxElements) :
        Return("extract_package_libraries", << html >>, << >>, TransportError,
               Ret(World, extract_package_libraries(html)))

NextLibraries == ExtractPackageLibraries

SpecLibraries == Init /\ [][NextLibraries]_vars

\* ------------------------------------------------------------------------
\* Concurrent cached lookups
\* ------------------------------------------------------------------------

\* Two requests run get_status or get_doc_json as tasks of the one event
\* loop. A task runs without interruption from one suspension point to the
\* next: from its call until session.get awaits the response, from the
\* arrival of the response until resp.json awaits the body, and from the
\* arrival of the body to its return.
Requests == {1, 2}

LookupOps == {"get_status", "get_doc_json"}

\* The cache key, the URL and the lifetime of a lookup
Lookup(op) ==
    IF op = "get_status"
    THEN [key |-> KeyStatus(Lwt, V10), url |-> UrlStatus(Lwt, V10),
          ttl |-> TTL_STATUS]
    ELSE [key |-> KeyDoc(Lwt, V10, DocIndexJson),
          url |-> UrlDoc(Lwt, V10, DocIndexJson), ttl |-> TTL_DOC]

\* What the backend may answer a lookup
LookupResponses(op) ==
    IF op = "get_status"
    THEN {TransportError, ServerError, Malformed, Ok(StatusBuilt), Ok(StatusFailed)}
    ELSE {NotFound, JsonNull, Ok(DocEmpty), Ok(JsonArray)}

\* A task: its position pc ("idle" before the call, "response" and "body"
\* at the two suspension points, "done" after), the lookup it runs, whether
\* its cache lookup missed, the response it got, and its outcome. before is
\* the cache as the task found it, turn tells the how-manieth its fetch was
\* to end (0 if it has not) and at the time when it did.
IdleTask ==
    [pc |-> "idle", op |-> "none", missed |-> FALSE, resp |-> None, exc |-> "",
     ret |-> None, before |-> << >>, turn |-> 0, at |-> 0]

\* The number of fetches that have ended
Ended == Cardinality({i \in Requests : tasks[i].turn > 0})

\* The task after its fetch ended with exc or ret
FetchEnded(task, exc, ret) ==
    [task EXCEPT !.pc = "done", !.exc = exc, !.ret = ret, !.turn = Ended + 1,
                 !.at = now]

\* A request starts a lookup: a cache hit returns at once; on a miss
\* fetch_json takes the session and session.get awaits the response.
Call(i) ==
    /\ tasks[i].pc = "idle"
    /\ \E op \in LookupOps :
          LET cached == cache_get(cache, Lookup(op).key, now)
              w == get_session(World)
          IN  IF ~IsNone(cached)
              THEN /\ tasks' = [tasks EXCEPT ![i] =
                                  [@ EXCEPT !.pc = "done", !.op = op,
                                            !.ret = cached, !.before = cache]]
                   /\ UNCHANGED <<session, closes>>
              ELSE /\ tasks' = [tasks EXCEPT ![i] =
                                  [@ EXCEPT !.pc = "response", !.op = op,
                                            !.missed = TRUE, !.before = cache]]
                   /\ session' = w.session
                   /\ closes' = w.closes
    /\ UNCHANGED <<now, cache, stored, lifespan, local_docs_root, last>>

\* The response arrives: session.get raises, or the status is not 200 and
\* None is returned, or resp.json awaits the body.
Respond(i) ==
    /\ tasks[i].pc = "response"
    /\ \E resp \in LookupResponses(tasks[i].op) :
          tasks' = [tasks EXCEPT ![i] =
                      IF resp.kind = "error"
                      THEN FetchEnded([@ EXCEPT !.resp = Some(resp)],
                                      "ClientError", None)
                      ELSE IF resp.status # 200
                      THEN FetchEnded([@ EXCEPT !.resp = Some(resp)], "", None)
                      ELSE [@ EXCEPT !.pc = "body", !.resp = Some(resp)]]
    /\ UNCHANGED <<now, cache, stored, session, closes, lifespan,
                   local_docs_root, last>>

\* The body arrives: resp.json raises on a body that is not JSON; else the
\* value is cached unless it is None, and returned.
ReadBody(i) ==
    /\ tasks[i].pc = "body"
    /\ LET resp == The(tasks[i].resp)
           l == Lookup(tasks[i].op)
           w == cache_set(World, l.key, The(resp.data), l.ttl, now)
       IN  IF ~resp.valid
           THEN /\ tasks' = [tasks EXCEPT ![i] =
                               FetchEnded(@, "JSONDecodeError", None)]
                /\ UNCHANGED <<cache, stored>>
           ELSE IF IsNone(resp.data)
           THEN /\ tasks' = [tasks EXCEPT ![i] = FetchEnded(@, "", None)]
                /\ UNCHANGED <<cache, stored>>
           ELSE /\ tasks' = [tasks EXCEPT ![i] = FetchEnded(@, "", resp.data)]
                /\ cache' = w.cache
                /\ stored' = w.stored
    /\ UNCHANGED <<now, session, closes, lifespan, local_docs_root, last>>

\* Both requests have returned, and two more arrive.
NextRequests ==
    /\ \A i \in Requests : tasks[i].pc = "done"
    /\ tasks' = [i \in Requests |-> IdleTask]
    /\ UNCHANGED <<now, cache, stored, session, closes, lifespan,
                   local_docs_root, last>>

\* No request has started.
InitRace ==
    /\ now = 0
    /\ cache = << >>
    /\ stored = << >>
    /\ session = 0
    /\ closes = << >>
    /\ lifespan = "running"
    /\ local_docs_root = None
    /\ last = Idle
    /\ tasks = [i \in Requests |-> IdleTask]

NextRace ==
    \/ \E i \in Requests : Call(i)
    \/ \E i \in Requests : Respond(i)
    \/ \E i \in Requests : ReadBody(i)
    \/ NextRequests
    \/ Advance

SpecRace == InitRace /\ [][NextRace]_vars

\* ------------------------------------------------------------------------
\* Properties
\* ------------------------------------------------------------------------

\* A step is a call when it moves the call count of last.
IsCall == last'.seq # last.seq

Range(xs) == {xs[i] : i \in 1..Len(xs)}

FailedFetch == {"error", "non200", "bad_body", "null"}

\* C1: cache_get(key) returns absent if the key was never set or the time is
\* at or past the expiry of the latest cache_set(key, value, ttl), which is
\* its set time plus ttl; otherwise it returns that cache_set's value.
C1_CacheGet ==
    [][(IsCall /\ last'.op = "cache_get") =>
         LET key == last'.args[1]
         IN  last'.ret =
                 IF key \notin DOMAIN stored
                    \/ now >= stored[key].at + stored[key].ttl
                 THEN None
                 ELSE Some(stored[key].value)]_vars

\* A cache_get that returns the value set, read later but within its ttl.
C1_Witness ==
    /\ last.op = "cache_get"
    /\ ~IsNone(last.ret)
    /\ now > stored[last.key].at

\* C2: failures are never cached. A call whose request failed leaves the
\* cache as it was; the cache changes only in a call whose request succeeded;
\* and the same call made again after a failed one issues a new request.
C2_NoNegativeCaching ==
    [][IsCall =>
         /\ (last'.net \in FailedFetch => cache' = cache)
         /\ (cache' # cache => last'.net = "ok" /\ last'.exc = "")
         /\ (last.net \in FailedFetch /\ last'.op = last.op /\ last'.args = last.args
               => last'.reqs # << >>)]_vars

\* A get_status whose request failed while the cache held an expired status.
C2_Witness ==
    /\ last.op = "get_status"
    /\ last.net \in FailedFetch
    /\ last.key \in DOMAIN cache
    /\ cache[last.key][2] <= now

\* C3: after a successful fetch at time t of a status record, a version
\* listing or a doc fragment, a lookup of the same key before t + TTL returns
\* the same value and issues no request, and a lookup at or after t + TTL (or
\* of a key never fetched) issues a request; TTL is 30 minutes for status
\* records and version listings and 10 minutes for doc fragments.
C3_Lifetimes ==
    [][(IsCall /\ last'.key # << >>
          /\ last'.op \in {"get_status", "resolve_version", "get_doc_json"}) =>
         LET key == last'.key
             ttl == IF last'.op = "get_doc_json" THEN 10 * 60 ELSE 30 * 60
         IN  IF key \in DOMAIN stored /\ now < stored[key].at + ttl
             THEN /\ last'.reqs = << >>
                  /\ last'.exc = ""
                  /\ stored' = stored
                  /\ last'.ret =
                       IF last'.op # "resolve_version" THEN Some(stored[key].value)
                       ELSE IF stored[key].value = << >> THEN None
                       ELSE Some(find_latest_version(stored[key].value)[1])
             ELSE Len(last'.reqs) = 1]_vars

\* A get_status answered from the cache some time after the fetch.
C3_Witness ==
    /\ last.op = "get_status"
    /\ last.reqs = << >>
    /\ ~IsNone(last.ret)
    /\ now > stored[last.key].at

\* C4, as claimed: resolve_version with an explicit version returns it
\* verbatim, for every version string.
C4_Original ==
    (last.op = "resolve_version" /\ ~IsNone(last.args[2]) /\ last.exc = "")
        => last.ret = last.args[2]

\* C4, amended: resolve_version with an explicit non-empty version returns it
\* verbatim, listed or not, with no lookup and no request.
C4_ExplicitVersion ==
    (last.op = "resolve_version" /\ ~IsNone(last.args[2]) /\ The(last.args[2]) # << >>)
        => /\ last.ret = last.args[2]
           /\ last.exc = ""
           /\ last.reqs = << >>

\* An explicit version returned while the cached version list lacks it.
C4_Witness ==
    /\ last.op = "resolve_version"
    /\ last.ret = Some(V99)
    /\ KeyVersions(Lwt) \in DOMAIN cache
    /\ cache[KeyVersions(Lwt)][1] # << >>
    /\ V99 \notin Range(cache[KeyVersions(Lwt)][1])

\* C5: resolve_version without an explicit version returns absent exactly
\* when the listing page fetch failed or the version list is empty, and else
\* returns the element of the version list the ordering policy finds maximal.
C5_Latest ==
    (last.op = "resolve_version" /\ IsNone(last.args[2])) =>
        LET listed == last.net \in {"none", "ok"}
            versions == cache[last.key][1]
        IN  /\ last.exc = ""
            /\ IsNone(last.ret) <=> (~listed \/ versions = << >>)
            /\ ~IsNone(last.ret) =>
                 /\ The(last.ret) \in Range(versions)
                 /\ The(last.ret) = find_latest_version(versions)[1]

\* C6: fetch_text and fetch_json return None, and do not raise, when the
\* status is not 200 and when the transport fails.
C6_FetchAbsent ==
    (last.op \in {"fetch_text", "fetch_json"} /\ last.net \in {"error", "non200"})
        => last.exc = "" /\ IsNone(last.ret)

\* C8: no session exists before the first request; no session is closed
\* twice; after the shutdown every session created is closed, once.
C8_SessionClosedOnce ==
    /\ last.op = "none" => closes = << >>
    /\ \A i \in 1..Len(closes) : closes[i] <= 1
    /\ lifespan = "exited" => \A i \in 1..Len(closes) : closes[i] = 1

\* The six query operations of the server.
QueryOps ==
    {"sherlodoc", "search_package_names", "get_package_info", "get_module_doc",
     "list_local_modules", "get_local_module_doc"}

\* C7: a failure raised while one of the six query operations runs (a local
\* JSON file that does not parse, a directory that cannot be read) is caught
\* at the operation's boundary and returned as a result record carrying an
\* error message; no query operation ends in an exception.
C7_FailuresCaught ==
    last.op \in QueryOps => last.exc = ""

\* The path segments of an artifact path.
Segments(f) == Split(f, "/")

\* An artifact path under doc/ whose final segment is index.html and whose
\* second segment below doc/ is name.
NamesModule(f, name) ==
    /\ Len(Segments(f)) >= 3
    /\ Segments(f)[1] = << "d", "o", "c" >>
    /\ Segments(f)[Len(Segments(f))] = << "i", "n", "d", "e", "x", ".", "h", "t", "m", "l" >>
    /\ Segments(f)[3] = name

\* The artifact list of the status record a get_module_doc call worked on.
FilesAsked(package, version) == The(cache[KeyStatus(package, version)][1].files)

\* C9: when get_module_doc is asked for a module path that matches no path of
\* the status record's artifact list, its error result carries a hint list
\* (available_top_level) of at most 30 entries, sorted ascending, without
\* duplicates, each the second path segment of an artifact path under doc/
\* whose final segment is index.html, and no doc fragment was requested.
C9_Hint ==
    (last.op = "get_module_doc" /\ last.exc = ""
        /\ "available_top_level" \in DOMAIN last.ret) =>
        LET hint == last.ret.available_top_level
            package == last.args[1]
            version == last.ret.error[4]
            files == FilesAsked(package, version)
            suffix == Join(Split(last.args[2], "."), Slash)
                         \o << "/", "i", "n", "d", "e", "x", ".", "h", "t", "m", "l" >>
        IN  /\ \A j \in 1..Len(files) : ~EndsWith(Lower(files[j]), Lower(suffix))
            /\ Len(hint) <= 30
            /\ \A i \in 1..(Len(hint) - 1) : StrLess(hint[i], hint[i + 1])
            /\ \A i \in 1..Len(hint) :
                  \E j \in 1..Len(files) : NamesModule(files[j], hint[i])
            /\ \A i \in 1..Len(last.reqs) :
                  last.reqs[i] \in {UrlVersions(package), UrlStatus(package, version)}

\* A hint cut to 30 names out of more than 30 modules of the artifact list.
C9_Witness ==
    /\ last.op = "get_module_doc"
    /\ last.exc = ""
    /\ "available_top_level" \in DOMAIN last.ret
    /\ Len(last.ret.available_top_level) = 30
    /\ LET files == FilesAsked(last.args[1], last.ret.error[4])
           long == {j \in 1..Len(files) : Len(Segments(files[j])) >= 3}
       IN  Cardinality({name \in {Segments(files[j])[3] : j \in long} :
                          \E j \in long : NamesModule(files[j], name)}) > 30

Min(a, b) == IF a <= b THEN a ELSE b

\* The spec containers of a fragment, in document order: the elements, each
\* followed by its children, that are a div of class spec.
IsSpec(e) == IsDiv(e, "spec")

SpecContainers(html) ==
    SelectSeq(Flatten([i \in 1..Len(html) |-> << html[i] >> \o html[i].kids]), IsSpec)

\* What extract_specs(html, limit) is to return: min(n, limit) items, those of
\* the first containers in document order, and truncated exactly if n > limit.
Extracted(html, limit, items, truncated) ==
    LET containers == SpecContainers(html)
        n == Len(containers)
    IN  /\ Len(items) = Min(n, limit)
        /\ truncated <=> n > limit
        /\ \A k \in 1..Len(items) :
              /\ Categorize(The(containers[k].id)) = <<items[k].kind, items[k].name>>
              /\ items[k].signature = The(containers[k].code)

\* The doc JSON a get_module_doc call worked on, and the one a
\* get_local_module_doc call read.
DocAsked ==
    LET package == last.args[1]
        version == last.ret.version
        matched_file == find_module_file(FilesAsked(package, version), last.args[2])
    IN  cache[KeyDoc(package, version, The(matched_file) \o << ".", "j", "s", "o", "n" >>)][1]

DocRead ==
    LET lib_dir == CHOOSE e \in last.args[2].entries : e.name = last.ret.library
    IN  The(lib_dir.docs[Split(last.args[1], ".")].data)

\* The result of a module documentation tool has the items of the doc's
\* content up to 100, and the truncated flag exactly if there are more.
Flagged(ret, doc) ==
    /\ Extracted(The(doc.content), SPEC_LIMIT, ret.items, "truncated" \in DOMAIN ret)
    /\ ret.items = extract_specs(The(doc.content), SPEC_LIMIT)[1]
    /\ "truncated" \in DOMAIN ret <=> extract_specs(The(doc.content), SPEC_LIMIT)[2]
    /\ "truncated" \in DOMAIN ret => ret.truncated

\* C10: extract_specs(html, limit) on a fragment with n spec containers
\* returns min(n, limit) items in document order and truncated = TRUE exactly
\* if n > limit, and ([], FALSE) on empty input; get_module_doc and
\* get_local_module_doc set the truncated flag of their result exactly when
\* extract_specs with limit 100 reports truncated.
C10_Truncation ==
    /\ last.op = "extract_specs" =>
          /\ Extracted(last.args[1], last.args[2], last.ret[1], last.ret[2])
          /\ last.args[1] = << >> => last.ret = << << >>, FALSE >>
    /\ (last.op = "get_module_doc" /\ last.exc = "" /\ "items" \in DOMAIN last.ret)
          => Flagged(last.ret, DocAsked)
    /\ (last.op = "get_local_module_doc" /\ last.exc = "" /\ "items" \in DOMAIN last.ret)
          => Flagged(last.ret, DocRead)

\* A get_module_doc of a module with more than 100 spec items: 100 items and
\* the truncated flag.
C10_Witness ==
    /\ last.op = "get_module_doc"
    /\ last.exc = ""
    /\ "truncated" \in DOMAIN last.ret
    /\ Len(last.ret.items) = 100
    /\ Len(SpecContainers(The(DocAsked.content))) > 100


\* The suffix a module path is matched by: its dots made slashes, then
\* /index.html
SuffixOf(module_path) ==
    [i \in 1..Len(module_path) |->
        IF module_path[i] = "." THEN "/" ELSE module_path[i]]
       \o << "/", "i", "n", "d", "e", "x", ".", "h", "t", "m", "l" >>

\* The least of a non-empty set of places
Least(S) == CHOOSE i \in S : \A j \in S : i <= j

\* The places of files that end with suffix, exactly and whatever the case
ExactAt(files, suffix) == {i \in 1..Len(files) : EndsWith(files[i], suffix)}
AnyCaseAt(files, suffix) ==
    {i \in 1..Len(files) : EndsWith(Lower(files[i]), Lower(suffix))}

\* C11: find_module_file returns the first path in list order that ends with
\* the module's suffix exactly if any path does, even after an earlier path
\* that matches only case-insensitively; else the first path that matches
\* case-insensitively; and absent if and only if no path matches either way.
C11_TwoPasses ==
    last.op = "find_module_file" =>
        LET files == last.args[1]
            suffix == SuffixOf(last.args[2])
            exact == ExactAt(files, suffix)
            anycase == AnyCaseAt(files, suffix)
            found == last.ret
        IN  /\ last.exc = ""
            /\ exact # {} => found = Some(files[Least(exact)])
            /\ (exact = {} /\ anycase # {}) => found = Some(files[Least(anycase)])
            /\ IsNone(found) <=> (exact = {} /\ anycase = {})

\* C11 witness: a path that matches only by case comes before one that
\* matches exactly, and the exact one is returned
C11_Witness ==
    /\ last.op = "find_module_file"
    /\ LET files == last.args[1]
           suffix == SuffixOf(last.args[2])
       IN  /\ ExactAt(files, suffix) # {}
           /\ Least(AnyCaseAt(files, suffix)) < Least(ExactAt(files, suffix))
           /\ last.ret = Some(files[Least(ExactAt(files, suffix))])

\* The places of the h2 elements of a page, of its ul and dl elements, and of
\* those of them that list a module (hold an li with a link)
HeadingsAt(html) == {i \in 1..Len(html) : html[i].tag = "h2"}
ListsAt(html) == {i \in 1..Len(html) : html[i].tag \in {"ul", "dl"}}
ModuleListsAt(html) ==
    {i \in ListsAt(html) :
        \E k \in 1..Len(html[i].items) : ~IsNone(html[i].items[k].link)}

\* The place of the k-th h2 of a page
HeadingPlace(html, k) ==
    CHOOSE i \in HeadingsAt(html) :
        Cardinality({j \in HeadingsAt(html) : j < i}) = k - 1

\* The module entries of the lists at the places from..to, in document order
EntriesBetween(html, from, to) ==
    Flatten([i \in 1..Len(html) |->
                IF i \in from..to /\ i \in ListsAt(html)
                THEN ModulesOf(html[i].items) ELSE << >>])

\* The libraries of a page: one per h2 in document order, holding the entries
\* of the lists up to the next h2, after a library "default" of the entries
\* before the first h2 if one of the lists at the places opening lies there
LibrariesOf(html, opening) ==
    LET n == Cardinality(HeadingsAt(html))
        first == IF n = 0 THEN Len(html) + 1 ELSE HeadingPlace(html, 1)
        leading == IF \E l \in opening : l < first
                   THEN << [name |-> << "d", "e", "f", "a", "u", "l", "t" >>,
                            modules |-> EntriesBetween(html, 1, first - 1)] >>
                   ELSE << >>
    IN  leading \o
        [k \in 1..n |->
            [name |-> html[HeadingPlace(html, k)].text,
             modules |-> EntriesBetween(html, HeadingPlace(html, k) + 1,
                                        IF k = n THEN Len(html)
                                        ELSE HeadingPlace(html, k + 1) - 1)]]

\* C12 as stated: extract_package_libraries gives one library per h2 in
\* document order, each with the module entries of the lists up to the next
\* h2, plus a leading library "default" whenever a list precedes the first h2.
C12_Original ==
    last.op = "extract_package_libraries" =>
        /\ last.exc = ""
        /\ last.ret = LibrariesOf(last.args[1], ListsAt(last.args[1]))

\* C12: extract_package_libraries gives one library per h2 in document order,
\* each with the module entries of the lists up to the next h2, plus a leading
\* library "default" exactly when a list that holds a module entry precedes
\* the first h2 (a list without module entries opens nothing); a page of
\* lists holding module entries and no h2 gives the one library "default"
\* with all the entries in document order.
C12_Libraries ==
    last.op = "extract_package_libraries" =>
        LET html == last.args[1]
        IN  /\ last.exc = ""
            /\ last.ret = LibrariesOf(html, ModuleListsAt(html))
            /\ (HeadingsAt(html) = {} /\ ModuleListsAt(html) # {}) =>
                  last.ret = << [name |-> << "d", "e", "f", "a", "u", "l", "t" >>,
                                 modules |-> EntriesBetween(html, 1, Len(html))] >>

\* C12 witness: a list of modules, then an h2 and a list of modules below it:
\* the library "default" comes first, the library of the h2 second, each with
\* its modules
C12_Witness ==
    /\ last.op = "extract_package_libraries"
    /\ Len(last.args[1]) = 3
    /\ 1 \in ModuleListsAt(last.args[1])
    /\ HeadingsAt(last.args[1]) = {2}
    /\ 3 \in ModuleListsAt(last.args[1])
    /\ Len(last.ret) = 2
    /\ last.ret[1].name = << "d", "e", "f", "a", "u", "l", "t" >>
    /\ last.ret[1].modules # << >>
    /\ last.ret[2].modules # << >>

\* Both requests looked up the same key, both missed, and both have returned
Raced ==
    /\ \A i \in Requests : tasks[i].pc = "done" /\ tasks[i].missed
    /\ \A i, j \in Requests : tasks[i].op = tasks[j].op

\* The requests whose fetch gave a value
Fetched == {i \in Requests : tasks[i].exc = "" /\ ~IsNone(tasks[i].ret)}

\* Of the requests S, the one whose fetch ended last
LastOf(S) == CHOOSE i \in S : \A j \in S : tasks[j].turn <= tasks[i].turn

\* The entries of the keys other than key are as the requests found them
OthersKept(key) ==
    \A i \in Requests :
        /\ DOMAIN cache \ {key} = DOMAIN tasks[i].before \ {key}
        /\ \A k \in DOMAIN cache \ {key} : cache[k] = tasks[i].before[k]

\* C13 as stated: when both requests missed the same key, each returns the
\* value it fetched and the cache then holds for the key the entry written by
\* the request whose fetch ended last, no other key's entry being changed.
C13_Original ==
    Raced =>
        LET l == Lookup(tasks[1].op)
            winner == tasks[LastOf(Requests)]
        IN  /\ \A i \in Requests :
                  tasks[i].exc = "" /\ tasks[i].ret = The(tasks[i].resp).data
            /\ l.key \in DOMAIN cache
            /\ ~IsNone(winner.ret)
            /\ cache[l.key] = << The(winner.ret), winner.at + l.ttl >>
            /\ OthersKept(l.key)

\* C13: when both requests missed the same key, each request that returns
\* returns the value it fetched itself; if a fetch gave a value, the cache
\* then holds for the key the one entry (value, time of writing + ttl) of the
\* request whose fetch was the last to give a value; if no fetch gave a value
\* the key's entry is as the requests found it; no other key's entry changes.
C13_LastWriteWins ==
    Raced =>
        LET l == Lookup(tasks[1].op)
        IN  /\ \A i \in Requests :
                  tasks[i].exc = "" => tasks[i].ret = The(tasks[i].resp).data
            /\ Fetched # {} =>
                  /\ l.key \in DOMAIN cache
                  /\ cache[l.key] = << The(tasks[LastOf(Fetched)].ret),
                                       tasks[LastOf(Fetched)].at + l.ttl >>
            /\ Fetched = {} =>
                  \A i \in Requests :
                      /\ l.key \in DOMAIN cache <=> l.key \in DOMAIN tasks[i].before
                      /\ l.key \in DOMAIN cache => cache[l.key] = tasks[i].before[l.key]
            /\ OthersKept(l.key)

\* C13 witness: both requests missed the key on the same cache, which held
\* another key's entry, each fetched a value of its own at a time of its own,
\* and the cache holds the entry of the later one
C13_Witness ==
    /\ Raced
    /\ tasks[1].before = tasks[2].before
    /\ DOMAIN tasks[1].before \ {Lookup(tasks[1].op).key} # {}
    /\ Fetched = Requests
    /\ tasks[1].ret # tasks[2].ret
    /\ tasks[1].at # tasks[2].at
    /\ cache[Lookup(tasks[1].op).key]
          = << The(tasks[LastOf(Requests)].ret),
               tasks[LastOf(Requests)].at + Lookup(tasks[1].op).ttl >>
====
